---- MODULE Spec2Model ----
(***************************************************************************)
(* A model of the type-pool crate (src/src/lib.rs): TypePool<T>, a map     *)
(* from slot ids to values behind a Box, and PoolKey<T>, the handle that   *)
(* insert returns.  A key carries a slot id and the address of the         *)
(* issuing pool's `pool` field at the time of the insert; owns_key         *)
(* compares that address with the address of the pool value itself.        *)
(*                                                                         *)
(* usize is scaled down to W bits.  The addresses a TypePool value can     *)
(* live at are the locations 1..NumAddrs; two live pools never share one.  *)
(* A Rust value may be moved by its owner at any time, which changes its   *)
(* address; from_iter itself moves the pool it built into its result.      *)
(* PoolKey's fields are private, so a caller can only present copies of    *)
(* keys that inserts returned; the model lets it present every key that    *)
(* carries an identity some insert has stamped.                            *)
(*                                                                         *)
(* A panic unwinds out of the operation; the pool is left as the code      *)
(* left it at the panicking statement and can still be used afterwards.    *)
(***************************************************************************)
EXTENDS Integers, Sequences, FiniteSets, TLC

\* ---- bounds of the model ----
W == 2            \* width of usize in bits
NumPools == 2     \* pool instances of the two-pool specification
NumAddrs == 2     \* locations a TypePool value can occupy
MaxVal == 2       \* values stored are 1..MaxVal
MaxKeys == 2      \* largest key set handed to get_set
MaxIter == 2      \* longest sequence handed to from_iter
MaxLenTwo == 1    \* entries per pool in the two-pool specification
MaxKeysTwo == 1   \* largest key set in the two-pool specification
MaxKeysReuse == 1 \* largest key set in the specification that follows a key

\* Offset of the field `pool` inside TypePool: the first field of a struct
\* of two word-sized fields, which rustc lays out in declaration order; the
\* crate's own test indexes with a fresh key, which needs this offset.
PoolFieldOffset == 0

USIZE_MAX == 2^W - 1
Ids == 0..USIZE_MAX
Pools == 1..NumPools
Addrs == 1..NumAddrs
Values == 1..MaxVal

\* PoolKey<T>(usize, NonZeroUsize, PhantomData<T>)
PoolKey == [id : Ids, ident : Addrs]

NoKey == [id |-> 0, ident |-> 0]

VARIABLES
  overflow_checks,  \* build profile: TRUE when `id + 1` panics on overflow
  live,             \* live[p]: pool p has been constructed
  addr,             \* addr[p]: address of the TypePool value p (0: none)
  pool,             \* pool[p]: the HashMap, a function slot id -> value
  next_id,          \* next_id[p]
  stamped,          \* stamped[p]: identities carried by the keys p has issued
  run,              \* run[p]: slot ids of the keys p's inserts have returned
                    \* since the last remove that took a value out of p
  liveIds,          \* liveIds[p]: slot ids of the keys p's inserts have returned,
                    \* less those a remove has taken the value of since
  vacated,          \* one key that a remove has taken the value of and whose
                    \* slot id no insert has returned since, followed from
                    \* the remove on: the pool, the key, and the number of
                    \* inserts that have returned another id in the meantime
  last              \* the last call: operation, pool and outcome

vars == <<overflow_checks, live, addr, pool, next_id, stamped, run, liveIds,
          vacated, last>>

\* ---- PoolKey ----

\* PartialEq for PoolKey
PoolKey_eq(a, b) == a.id = b.id /\ a.ident = b.ident

\* ---- HashMap<usize, T> ----

\* HashMap::new()
EmptyMap == [i \in {} |-> 0]

\* HashMap::insert
MapInsert(map, id, v) ==
  [i \in DOMAIN map \cup {id} |-> IF i = id THEN v ELSE map[i]]

\* HashMap::remove
MapRemove(map, id) == [i \in DOMAIN map \ {id} |-> map[i]]

\* ---- TypePool, over a value self = [addr, pool, next_id] ----

\* The TypePool value of pool p: where it is and its two fields.
Self(p) == [addr |-> addr[p], pool |-> pool[p], next_id |-> next_id[p]]

\* TypePool::new(), placed at address a
new(a) == [addr |-> a, pool |-> EmptyMap, next_id |-> 0]

\* self as *const Self as usize
SelfAddr(self) == self.addr

\* &mut self.pool as *const _ as usize
PoolFieldAddr(self) == self.addr + PoolFieldOffset

owns_key(self, key) == key.ident = SelfAddr(self)

contains_key(self, key) == owns_key(self, key) /\ key.id \in DOMAIN self.pool

len(self) == Cardinality(DOMAIN self.pool)

is_empty(self) == len(self) = 0

IsPanic(res) == res \notin {"ok", "none"}

\* (self.next_id..=usize::MAX).chain(0..self.next_id)
ScanOrder(n) ==
  [i \in 1..(USIZE_MAX - n + 1) |-> n + i - 1] \o [i \in 1..n |-> i - 1]

\* .find(|key| !self.pool.contains_key(key)): 0 when nothing is found,
\* otherwise the position of the first free id in the scan.
FindFree(map, n) ==
  LET s == ScanOrder(n)
      hits == {i \in 1..Len(s) : s[i] \notin DOMAIN map}
  IN IF hits = {} THEN 0 ELSE CHOOSE i \in hits : \A j \in hits : i <= j

\* The bug of taking the hint without looking at the storage.
get_next_id_noScan(self) ==
  IF self.next_id = USIZE_MAX /\ overflow_checks
  THEN [res |-> "panic_overflow", id |-> self.next_id, next_id |-> self.next_id]
  ELSE [res |-> "ok", id |-> self.next_id,
        next_id |-> (self.next_id + 1) % (USIZE_MAX + 1)]

\* The bug of scanning from 0 instead of from the hint.
get_next_id_lowestFree(self) ==
  LET pos == FindFree(self.pool, 0)
      id == ScanOrder(0)[pos]
  IN IF pos = 0
     THEN [res |-> "panic_unwrap", id |-> 0, next_id |-> self.next_id]
     ELSE IF id = USIZE_MAX /\ overflow_checks
     THEN [res |-> "panic_overflow", id |-> id, next_id |-> self.next_id]
     ELSE [res |-> "ok", id |-> id, next_id |-> (id + 1) % (USIZE_MAX + 1)]

\* The bug of never advancing the hint.
get_next_id_keepsHint(self) ==
  LET pos == FindFree(self.pool, self.next_id)
      id == ScanOrder(self.next_id)[pos]
  IN IF pos = 0
     THEN [res |-> "panic_unwrap", id |-> 0, next_id |-> self.next_id]
     ELSE [res |-> "ok", id |-> id, next_id |-> self.next_id]

\* get_next_id: the id found and the new next_id; `id + 1` overflows at
\* usize::MAX, which panics with overflow checks and wraps without.
get_next_id(self) ==
  LET pos == FindFree(self.pool, self.next_id)
      id == ScanOrder(self.next_id)[pos]
  IN IF pos = 0
     THEN [res |-> "panic_unwrap", id |-> 0, next_id |-> self.next_id]
     ELSE IF id = USIZE_MAX /\ overflow_checks
     THEN [res |-> "panic_overflow", id |-> id, next_id |-> self.next_id]
     ELSE [res |-> "ok", id |-> id, next_id |-> (id + 1) % (USIZE_MAX + 1)]

\* The bug of issuing a key without storing the value.
insert_forgetsStore(self, value) ==
  LET g == get_next_id(self)
  IN IF len(self) = USIZE_MAX \/ IsPanic(g.res)
     THEN [res |-> "panic_full", key |-> NoKey, self |-> self]
     ELSE [res |-> "ok",
           key |-> [id |-> g.id, ident |-> PoolFieldAddr(self)],
           self |-> [self EXCEPT !.next_id = g.next_id]]

\* The bug of storing under the advanced hint instead of the id found.
insert_storeAtHint(self, value) ==
  LET g == get_next_id(self)
  IN IF len(self) = USIZE_MAX \/ IsPanic(g.res)
     THEN [res |-> "panic_full", key |-> NoKey, self |-> self]
     ELSE [res |-> "ok",
           key |-> [id |-> g.id, ident |-> PoolFieldAddr(self)],
           self |-> [self EXCEPT !.pool = MapInsert(@, g.next_id, value),
                                 !.next_id = g.next_id]]

\* TypePool::insert: the outcome, the key returned and self afterwards.
insert(self, value) ==
  IF len(self) = USIZE_MAX
  THEN [res |-> "panic_full", key |-> NoKey, self |-> self]
  ELSE LET g == get_next_id(self)
       IN IF IsPanic(g.res)
          THEN [res |-> g.res, key |-> NoKey, self |-> self]
          ELSE [res |-> "ok",
                key |-> [id |-> g.id, ident |-> PoolFieldAddr(self)],
                self |-> [self EXCEPT !.pool = MapInsert(@, g.id, value),
                                      !.next_id = g.next_id]]

\* The bug of returning the value without deleting the slot.
remove_keepsSlot(self, key) ==
  IF ~owns_key(self, key)
  THEN [res |-> "panic_not_owned", out |-> 0, self |-> self]
  ELSE IF key.id \in DOMAIN self.pool
  THEN [res |-> "ok", out |-> self.pool[key.id], self |-> self]
  ELSE [res |-> "none", out |-> 0, self |-> self]

\* The bug of leaving the ownership assertion out of remove.
remove_noOwnerCheck(self, key) ==
  IF key.id \in DOMAIN self.pool
  THEN [res |-> "ok", out |-> self.pool[key.id],
        self |-> [self EXCEPT !.pool = MapRemove(@, key.id)]]
  ELSE [res |-> "none", out |-> 0, self |-> self]

\* TypePool::remove: Some(value) is "ok", None is "none".
remove(self, key) ==
  IF ~owns_key(self, key)
  THEN [res |-> "panic_not_owned", out |-> 0, self |-> self]
  ELSE IF key.id \in DOMAIN self.pool
  THEN [res |-> "ok", out |-> self.pool[key.id],
        self |-> [self EXCEPT !.pool = MapRemove(@, key.id)]]
  ELSE [res |-> "none", out |-> 0, self |-> self]

\* The bug of leaving the ownership assertion out of index.
index_noOwnerCheck(self, key) ==
  IF key.id \notin DOMAIN self.pool
  THEN [res |-> "panic_absent", out |-> 0, slot |-> key.id]
  ELSE [res |-> "ok", out |-> self.pool[key.id], slot |-> key.id]

\* Index::index: the outcome, the value read and the slot referred to.
index(self, key) ==
  IF ~owns_key(self, key)
  THEN [res |-> "panic_not_owned", out |-> 0, slot |-> key.id]
  ELSE IF key.id \notin DOMAIN self.pool
  THEN [res |-> "panic_absent", out |-> 0, slot |-> key.id]
  ELSE [res |-> "ok", out |-> self.pool[key.id], slot |-> key.id]

\* The bug of handing out a reference to the lowest slot present.
index_mut_lowestSlot(self, key) ==
  IF ~owns_key(self, key)
  THEN [res |-> "panic_not_owned", out |-> 0, slot |-> key.id]
  ELSE IF key.id \notin DOMAIN self.pool
  THEN [res |-> "panic_absent", out |-> 0, slot |-> key.id]
  ELSE LET low == CHOOSE i \in DOMAIN self.pool :
                    \A j \in DOMAIN self.pool : i <= j
       IN [res |-> "ok", out |-> self.pool[low], slot |-> low]

\* The bug of leaving the ownership assertion out of index_mut.
index_mut_noOwnerCheck(self, key) ==
  IF key.id \notin DOMAIN self.pool
  THEN [res |-> "panic_absent", out |-> 0, slot |-> key.id]
  ELSE [res |-> "ok", out |-> self.pool[key.id], slot |-> key.id]

\* IndexMut::index_mut: the outcome and the slot the &mut refers to.
index_mut(self, key) ==
  IF ~owns_key(self, key)
  THEN [res |-> "panic_not_owned", out |-> 0, slot |-> key.id]
  ELSE IF key.id \notin DOMAIN self.pool
  THEN [res |-> "panic_absent", out |-> 0, slot |-> key.id]
  ELSE [res |-> "ok", out |-> self.pool[key.id], slot |-> key.id]

\* The bug of taking a reference for the first key only.
get_set_firstOnly(self, ks) ==
  IF ks = <<>>
  THEN [res |-> "ok", refs |-> <<>>]
  ELSE LET r == index_mut(self, Head(ks))
       IN IF IsPanic(r.res)
          THEN [res |-> r.res, refs |-> <<>>]
          ELSE [res |-> "ok", refs |-> <<r.slot>>]

\* The bug of skipping the keys that are not in the pool.
get_set_skipping(self, ks) ==
  LET good == SelectSeq(ks, LAMBDA k : ~IsPanic(index_mut(self, k).res))
  IN [res |-> "ok",
      refs |-> [i \in 1..Len(good) |-> index_mut(self, good[i]).slot]]

\* The bug of collecting the references in the opposite order.
get_set_reversed(self, ks) ==
  LET bad == {i \in 1..Len(ks) : IsPanic(index_mut(self, ks[i]).res)}
      first == CHOOSE i \in bad : \A j \in bad : i <= j
  IN IF bad # {}
     THEN [res |-> index_mut(self, ks[first]).res, refs |-> <<>>]
     ELSE [res |-> "ok",
           refs |-> [i \in 1..Len(ks) |->
                       index_mut(self, ks[Len(ks) + 1 - i]).slot]]

\* TypePool::get_set over the key set in its iteration order ks: index_mut
\* on each key in turn, the first panic ending the call; a reference is
\* the slot it points into.
RECURSIVE get_set(_, _)
get_set(self, ks) ==
  IF ks = <<>>
  THEN [res |-> "ok", refs |-> <<>>]
  ELSE LET r == index_mut(self, Head(ks))
       IN IF IsPanic(r.res)
          THEN [res |-> r.res, refs |-> <<>>]
          ELSE LET rest == get_set(self, Tail(ks))
               IN IF IsPanic(rest.res)
                  THEN rest
                  ELSE [res |-> "ok", refs |-> <<r.slot>> \o rest.refs]

\* keys.extend(iter.map(|v| pool.insert(v))): the inserts in iteration
\* order, the first panic ending the call.
RECURSIVE InsertAll(_, _)
InsertAll(self, iter) ==
  IF iter = <<>>
  THEN [res |-> "ok", self |-> self, keys |-> <<>>]
  ELSE LET r == insert(self, Head(iter))
       IN IF IsPanic(r.res)
          THEN [res |-> r.res, self |-> r.self, keys |-> <<>>]
          ELSE LET rest == InsertAll(r.self, Tail(iter))
               IN [res |-> rest.res, self |-> rest.self,
                   keys |-> IF IsPanic(rest.res) THEN <<>>
                            ELSE <<r.key>> \o rest.keys]

\* TypePool::from_iter: the pool is built in a local at address a and
\* returned by value, which places it at address b.
from_iter(iter, a, b) ==
  LET r == InsertAll(new(a), iter)
  IN [res |-> r.res, self |-> [r.self EXCEPT !.addr = b], keys |-> r.keys]

\* ---- the callers' side ----

\* The record of a call: operation, pool, outcome, value returned, keys
\* returned, references returned.
Call(op, p, res, out, ks, refs) ==
  [op |-> op, p |-> p, res |-> res, out |-> out, keys |-> ks, refs |-> refs]

\* Locations no live pool occupies.
FreeAddrs == Addrs \ {addr[q] : q \in {r \in Pools : live[r]}}

\* The identities inserts have stamped on keys so far.
Stamped == UNION {stamped[q] : q \in Pools}

\* Keys a caller can present.
Presentable == {k \in PoolKey : k.ident \in Stamped}

\* The sequences of n or fewer elements of S.
RECURSIVE SeqsUpTo(_, _)
SeqsUpTo(S, n) ==
  IF n = 0 THEN {<<>>}
  ELSE LET shorter == SeqsUpTo(S, n - 1)
       IN shorter \cup
          {Append(s, k) : s \in {t \in shorter : Len(t) = n - 1}, k \in S}

\* Every HashSet<PoolKey> of at most MaxKeys keys, in an iteration order.
AllKeySeqs ==
  {ks \in SeqsUpTo(PoolKey, MaxKeys) :
     \A i, j \in 1..Len(ks) : i < j => ~PoolKey_eq(ks[i], ks[j])}

\* Those a caller can present.
KeySeqs == {ks \in AllKeySeqs : \A i \in 1..Len(ks) : ks[i].ident \in Stamped}

\* Sequences of values handed to from_iter.
Iters == SeqsUpTo(Values, MaxIter)

\* No vacated key is being followed.
NoVacated == [p |-> 0, key |-> NoKey, passed |-> 0]

\* The vacated key after an insert of pool p has returned id: its slot is
\* vacated no longer, or the insert has passed it by. The count stops at
\* usize::MAX + 1.
PassedBy(vac, p, id) ==
  IF vac.p # p THEN vac
  ELSE IF vac.key.id = id THEN NoVacated
  ELSE [vac EXCEPT !.passed = IF @ > USIZE_MAX THEN @ ELSE @ + 1]

\* self written back to pool p
Store(p, self) ==
  /\ addr' = [addr EXCEPT ![p] = self.addr]
  /\ pool' = [pool EXCEPT ![p] = self.pool]
  /\ next_id' = [next_id EXCEPT ![p] = self.next_id]

Init ==
  /\ overflow_checks \in BOOLEAN
  /\ live = [p \in Pools |-> FALSE]
  /\ addr = [p \in Pools |-> 0]
  /\ pool = [p \in Pools |-> EmptyMap]
  /\ next_id = [p \in Pools |-> 0]
  /\ stamped = [p \in Pools |-> {}]
  /\ run = [p \in Pools |-> <<>>]
  /\ liveIds = [p \in Pools |-> {}]
  /\ vacated = NoVacated
  /\ last = Call("init", 0, "ok", 0, <<>>, <<>>)

\* let pool = TypePool::new(), the value placed at a.
New(p, a) ==
  /\ ~live[p]
  /\ a \in FreeAddrs
  /\ live' = [live EXCEPT ![p] = TRUE]
  /\ Store(p, new(a))
  /\ last' = Call("new", p, "ok", 0, <<>>, <<>>)
  /\ UNCHANGED <<overflow_checks, stamped, run, liveIds,
                 vacated>>

\* let (pool, keys) = TypePool::from_iter(iter)
FromIter(p, iter, a, b) ==
  /\ ~live[p]
  /\ a \in FreeAddrs
  /\ b \in FreeAddrs
  /\ \E r \in {from_iter(iter, a, b)} :
        IF r.res = "ok"
        THEN /\ live' = [live EXCEPT ![p] = TRUE]
             /\ Store(p, r.self)
             /\ stamped' = [stamped EXCEPT
                   ![p] = {r.keys[i].ident : i \in 1..Len(r.keys)}]
             /\ run' = [run EXCEPT
                   ![p] = [i \in 1..Len(r.keys) |-> r.keys[i].id]]
             /\ liveIds' = [liveIds EXCEPT
                   ![p] = {r.keys[i].id : i \in 1..Len(r.keys)}]
             /\ UNCHANGED vacated
             /\ last' = Call("from_iter", p, "ok", 0, r.keys, <<>>)
        ELSE /\ UNCHANGED <<live, addr, pool, next_id, stamped, run, liveIds,
                 vacated>>
             /\ last' = Call("from_iter", p, r.res, 0, <<>>, <<>>)
  /\ UNCHANGED overflow_checks

\* The owner moves the pool value to another location.
Move(p, a) ==
  /\ live[p]
  /\ a \in FreeAddrs
  /\ addr' = [addr EXCEPT ![p] = a]
  /\ last' = Call("move", p, "ok", 0, <<>>, <<>>)
  /\ UNCHANGED <<overflow_checks, live, pool, next_id, stamped, run, liveIds,
                 vacated>>

\* let key = pool.insert(v)
Insert(p, v) ==
  /\ live[p]
  /\ \E r \in {insert(Self(p), v)} :
        /\ Store(p, r.self)
        /\ IF r.res = "ok"
           THEN /\ stamped' = [stamped EXCEPT ![p] = @ \cup {r.key.ident}]
                /\ run' = [run EXCEPT ![p] = Append(@, r.key.id)]
                /\ liveIds' = [liveIds EXCEPT ![p] = @ \cup {r.key.id}]
                /\ vacated' = PassedBy(vacated, p, r.key.id)
                /\ last' = Call("insert", p, "ok", 0, <<r.key>>, <<>>)
           ELSE /\ UNCHANGED <<stamped, run, liveIds,
                 vacated>>
                /\ last' = Call("insert", p, r.res, 0, <<>>, <<>>)
  /\ UNCHANGED <<overflow_checks, live>>

\* pool.remove(key)
Remove(p, key) ==
  /\ live[p]
  /\ \E r \in {remove(Self(p), key)} :
        /\ Store(p, r.self)
        /\ run' = IF r.res = "ok" THEN [run EXCEPT ![p] = <<>>] ELSE run
        /\ liveIds' = IF r.res = "ok"
                      THEN [liveIds EXCEPT ![p] = @ \ {key.id}]
                      ELSE liveIds
        /\ vacated' \in IF r.res = "ok"
                        THEN {vacated, [p |-> p, key |-> key, passed |-> 0]}
                        ELSE {vacated}
        /\ last' = Call("remove", p, r.res, r.out, <<>>, <<>>)
  /\ UNCHANGED <<overflow_checks, live, stamped>>

\* pool[key]
Index(p, key) ==
  /\ live[p]
  /\ \E r \in {index(Self(p), key)} :
        last' = Call("index", p, r.res, r.out, <<>>, <<>>)
  /\ UNCHANGED <<overflow_checks, live, addr, pool, next_id, stamped, run,
                 liveIds,
                 vacated>>

\* pool[key] = x
IndexMut(p, key, x) ==
  /\ live[p]
  /\ \E r \in {index_mut(Self(p), key)} :
        IF r.res = "ok"
        THEN /\ pool' = [pool EXCEPT ![p] = MapInsert(@, r.slot, x)]
             /\ last' = Call("index_mut", p, "ok", 0, <<>>, <<r.slot>>)
        ELSE /\ UNCHANGED pool
             /\ last' = Call("index_mut", p, r.res, 0, <<>>, <<>>)
  /\ UNCHANGED <<overflow_checks, live, addr, next_id, stamped, run, liveIds,
                 vacated>>

\* let values = pool.get_set(&keys)
GetSet(p, ks) ==
  /\ live[p]
  /\ \E r \in {get_set(Self(p), ks)} :
        last' = Call("get_set", p, r.res, 0, <<>>, r.refs)
  /\ UNCHANGED <<overflow_checks, live, addr, pool, next_id, stamped, run,
                 liveIds,
                 vacated>>

\* *values[i] = x: the caller writes through the i-th reference get_set
\* returned, while the references are still borrowed, and lets them go.
WriteRef(i, x) ==
  /\ last.op \in {"get_set", "ref_write"}
  /\ last.res = "ok"
  /\ i \in 1..Len(last.refs)
  /\ pool' = [pool EXCEPT ![last.p] = MapInsert(@, last.refs[i], x)]
  /\ last' = Call("ref_write", last.p, "ok", 0, <<>>, <<>>)
  /\ UNCHANGED <<overflow_checks, live, addr, next_id, stamped, run, liveIds,
                 vacated>>

\* The calls on the pools PS, none of them growing beyond maxLen entries,
\* with key sets of at most maxKeys keys; a vacated key is followed only
\* if follow.
Step(PS, maxLen, maxKeys, follow) ==
  \/ \E p \in PS, a \in Addrs : New(p, a)
  \/ \E p \in PS, iter \in Iters, a, b \in Addrs :
        Len(iter) <= maxLen /\ FromIter(p, iter, a, b)
  \/ \E p \in PS, a \in Addrs : Move(p, a)
  \/ \E p \in PS, v \in Values : len(Self(p)) < maxLen /\ Insert(p, v)
  \/ \E p \in PS, key \in Presentable :
        Remove(p, key) /\ (vacated' # vacated => follow)
  \/ \E p \in PS, key \in Presentable : Index(p, key)
  \/ \E p \in PS, key \in Presentable, x \in Values : IndexMut(p, key, x)
  \/ \E p \in PS, ks \in KeySeqs : Len(ks) <= maxKeys /\ GetSet(p, ks)
  \/ \E i \in 1..MaxKeys, x \in Values : WriteRef(i, x)

\* One pool, used without restriction.
Next == Step({1}, USIZE_MAX + 1, MaxKeys, FALSE)

Spec == Init /\ [][Next]_vars

\* Several pools side by side, each kept small.
NextTwo == Step(Pools, MaxLenTwo, MaxKeysTwo, FALSE)

SpecTwo == Init /\ [][NextTwo]_vars

\* One pool, with a vacated key followed from its remove on.
NextReuse == Step({1}, USIZE_MAX + 1, MaxKeysReuse, TRUE)

SpecReuse == Init /\ [][NextReuse]_vars

\* ---- the claims ----

\* The keys that carry an identity p's inserts have stamped.
IssuedBy(p) == {k \in PoolKey : k.ident \in stamped[p]}

\* The pool value of p after the step.
SelfNext(p) == [addr |-> addr'[p], pool |-> pool'[p], next_id |-> next_id'[p]]

\* C1: a key that a pool's insert returned satisfies owns_key on that pool
\* at every later point, whatever inserts, removes and moves of the pool
\* value have happened since.
C1_OwnsIssuedKeys ==
  \A p \in Pools : live[p] => \A k \in IssuedBy(p) : owns_key(Self(p), k)

\* C2: of two distinct pools live at the same time, neither owns a key the
\* other's insert returned, whatever operations and moves have happened.
C2_IdentityScoping ==
  \A A, B \in Pools :
    A # B /\ live[A] /\ live[B] =>
      \A k \in IssuedBy(A) : ~owns_key(Self(B), k)

\* C3: the keys one pool's inserts return with no remove of a value in
\* between have pairwise distinct slot ids, so no two of them compare equal.
C3_Uniqueness ==
  \A p \in Pools :
    \A i, j \in 1..Len(run[p]) : i # j => run[p][i] # run[p][j]

\* Three inserts in a row have returned their keys.
C3_Witness ==
  /\ last.op = "insert"
  /\ last.res = "ok"
  /\ Len(run[last.p]) = USIZE_MAX

\* The step is a call on p that C4 lets pass without changing what key k
\* reads: an insert, or a remove or a write through a key other than k.
C4_OtherCall(p, k) ==
  \/ last'.op = "insert"
  \/ /\ last'.op = "remove"
     /\ \E k2 \in Presentable : ~PoolKey_eq(k2, k) /\ Remove(p, k2)
  \/ /\ last'.op = "index_mut"
     /\ \E k2 \in Presentable, x \in Values :
           ~PoolKey_eq(k2, k) /\ IndexMut(p, k2, x)
  \/ /\ last'.op = "ref_write"
     /\ \E i \in 1..Len(last.refs), x \in Values :
           last.refs[i] # k.id /\ WriteRef(i, x)

C4_Step ==
  /\ last'.op = "insert" /\ last'.res = "ok" =>
       \A v \in Values :
         Insert(last'.p, v) =>
           LET r == index(SelfNext(last'.p), last'.keys[1])
           IN r.res = "ok" /\ r.out = v
  /\ last'.op \in {"insert", "remove", "index_mut", "ref_write"} =>
       \A k \in Presentable :
         index(Self(last'.p), k).res = "ok" /\ C4_OtherCall(last'.p, k) =>
           index(SelfNext(last'.p), k) = index(Self(last'.p), k)

\* C4: right after insert(v) returns k, pool[k] reads v; and an insert, or
\* a remove or write through another key, leaves what pool[k] reads as it
\* was.
C4_RoundTrip == [][C4_Step]_vars

\* An indexed read has returned a value from a pool of several entries.
C4_Witness ==
  /\ last.op = "index"
  /\ last.res = "ok"
  /\ last.out = MaxVal
  /\ len(Self(last.p)) >= 2

\* get_set on keys the pool contains: a reference per key, into that key's
\* slot, no two into the same slot.
C5_Refs ==
  \A p \in Pools :
    live[p] =>
      \A ks \in KeySeqs :
        (\A i \in 1..Len(ks) : contains_key(Self(p), ks[i])) =>
          LET r == get_set(Self(p), ks)
          IN /\ r.res = "ok"
             /\ Len(r.refs) = Len(ks)
             /\ \A i \in 1..Len(ks) :
                   /\ r.refs[i] = ks[i].id
                   /\ r.refs[i] \in DOMAIN pool[p]
             /\ \A i, j \in 1..Len(ks) : i # j => r.refs[i] # r.refs[j]

\* A write through one of the references get_set returned shows through
\* that reference and through none of the others.
C5_Write ==
  last'.op = "ref_write" =>
    \A i \in 1..Len(last.refs), x \in Values :
      WriteRef(i, x) =>
        /\ pool'[last.p][last.refs[i]] = x
        /\ \A j \in 1..Len(last.refs) :
             j # i => pool'[last.p][last.refs[j]] = pool[last.p][last.refs[j]]

\* C5: for keys that all satisfy contains_key, get_set returns one
\* reference per key, each into its key's slot and no two into the same
\* slot, so that a write through one is not seen through another.
C5_BatchedAccess == []C5_Refs /\ [][C5_Write]_vars

\* get_set has returned references for a set of MaxKeys keys.
C5_Witness ==
  /\ last.op = "get_set"
  /\ last.res = "ok"
  /\ Len(last.refs) = MaxKeys

C6_Step ==
  last'.op = "remove" /\ ~IsPanic(last'.res) =>
    \A key \in Presentable :
      Remove(last'.p, key) =>
        LET after == SelfNext(last'.p)
        IN /\ ~contains_key(after, key)
           /\ IsPanic(index(after, key).res)
           /\ IsPanic(index_mut(after, key).res)
           /\ \A ks \in KeySeqs :
                (\E i \in 1..Len(ks) : PoolKey_eq(ks[i], key)) =>
                  IsPanic(get_set(after, ks).res)

\* C6: once remove(k) has returned on a pool that owns k, contains_key(k)
\* is false, and an indexed read, an indexed write and a get_set whose key
\* set holds k each panic.
C6_RemovalIsFinal == [][C6_Step]_vars

\* remove has returned a value and left other entries in the pool.
C6_Witness ==
  /\ last.op = "remove"
  /\ last.res = "ok"
  /\ last.out = MaxVal
  /\ ~is_empty(Self(last.p))

\* The slot ids in storage are those of the keys insert has returned and
\* no remove has taken the value of since.
C7_Storage == \A p \in Pools : DOMAIN pool[p] = liveIds[p]

\* insert stores under an id that was free, and from_iter's inserts under
\* ids free of each other.
C7_NoOverwrite ==
  /\ last'.op = "insert" /\ last'.res = "ok" =>
       /\ last'.keys[1].id \notin DOMAIN pool[last'.p]
       /\ DOMAIN pool'[last'.p] = DOMAIN pool[last'.p] \cup {last'.keys[1].id}
  /\ last'.op = "from_iter" /\ last'.res = "ok" =>
       /\ \A i, j \in 1..Len(last'.keys) :
            i # j => last'.keys[i].id # last'.keys[j].id
       /\ DOMAIN pool'[last'.p] =
            {last'.keys[i].id : i \in 1..Len(last'.keys)}

\* C7: after any inserts and removes, the slot ids present in storage are
\* exactly those of the keys insert returned and that were not removed
\* since; no id that was never allocated is held, and insert never
\* overwrites an occupied slot.
C7_StorageInvariant == []C7_Storage /\ [][C7_NoOverwrite]_vars

\* An insert has reused the id space after a remove: the last slot id is
\* allocated while the pool is full.
C7_Witness ==
  /\ last.op = "insert"
  /\ last.res = "ok"
  /\ USIZE_MAX \in liveIds[last.p]
  /\ len(Self(last.p)) = USIZE_MAX

C8_Step ==
  last'.op = "remove" =>
    \A key \in Presentable :
      Remove(last'.p, key) =>
        LET p == last'.p
        IN /\ next_id' = next_id
           /\ addr' = addr
           /\ \A q \in Pools \ {p} : pool'[q] = pool[q]
           /\ IF ~owns_key(Self(p), key)
              THEN IsPanic(last'.res) /\ pool' = pool
              ELSE IF key.id \in DOMAIN pool[p]
              THEN /\ last'.res = "ok"
                   /\ last'.out = pool[p][key.id]
                   /\ DOMAIN pool'[p] = DOMAIN pool[p] \ {key.id}
                   /\ \A i \in DOMAIN pool'[p] : pool'[p][i] = pool[p][i]
              ELSE last'.res = "none" /\ pool' = pool

\* C8: remove panics and changes nothing when the pool does not own the
\* key; returns the stored value and deletes exactly that slot when the
\* pool owns the key and its slot is present; returns nothing and changes
\* nothing when the pool owns the key and its slot is absent; and never
\* changes next_id.
C8_Remove == [][C8_Step]_vars

\* remove has found the slot of a key of this pool absent.
C8_Witness == last.op = "remove" /\ last.res = "none"

C9_Step ==
  /\ last'.op = "index" =>
       \A key \in Presentable :
         Index(last'.p, key) =>
           LET self == Self(last'.p)
           IN /\ (last'.res = "ok") <=> contains_key(self, key)
              /\ last'.res = "ok" => last'.out = self.pool[key.id]
              /\ last'.res # "ok" =>
                   IsPanic(last'.res) /\ pool' = pool /\ next_id' = next_id
  /\ last'.op = "index_mut" =>
       \A key \in Presentable, x \in Values :
         IndexMut(last'.p, key, x) =>
           LET self == Self(last'.p)
           IN /\ (last'.res = "ok") <=> contains_key(self, key)
              /\ last'.res = "ok" => pool'[last'.p][key.id] = x
              /\ last'.res # "ok" =>
                   IsPanic(last'.res) /\ pool' = pool /\ next_id' = next_id

\* C9: an indexed read and an indexed write succeed exactly when
\* contains_key holds of the key; they panic when the pool does not own
\* the key and when it owns the key but the slot is absent, and a failing
\* one leaves storage and next_id unchanged.
C9_Indexing == [][C9_Step]_vars

\* An indexed write has panicked on a key of this pool whose slot is absent.
C9_Witness == last.op = "index_mut" /\ last.res = "panic_absent"

\* get_set panics when a key of the set does not satisfy contains_key.
C10_Precondition ==
  \A p \in Pools :
    live[p] =>
      \A ks \in KeySeqs :
        (\E i \in 1..Len(ks) : ~contains_key(Self(p), ks[i])) =>
          IsPanic(get_set(Self(p), ks).res)

\* get_set, returning or panicking, leaves the pools as they were.
C10_Frame ==
  last'.op = "get_set" =>
    /\ pool' = pool
    /\ next_id' = next_id
    /\ addr' = addr
    /\ IsPanic(last'.res) => last'.refs = <<>>

\* C10: get_set panics, rather than skipping the key, when any key of the
\* set does not satisfy contains_key; and whether it returns or panics it
\* adds no entry, removes no entry and leaves next_id unchanged.
C10_GetSetFrame == []C10_Precondition /\ [][C10_Frame]_vars

\* get_set has panicked on a removed key while the pool holds other values.
C10_Witness ==
  /\ last.op = "get_set"
  /\ last.res = "panic_absent"
  /\ ~is_empty(Self(last.p))

C11_Step ==
  /\ last'.op = "insert" /\ len(Self(last'.p)) = USIZE_MAX =>
       /\ IsPanic(last'.res)
       /\ pool' = pool
       /\ next_id' = next_id
       /\ len(SelfNext(last'.p)) = len(Self(last'.p))
  /\ /\ last.op = "insert"
     /\ last.res = "panic_full"
     /\ last'.op = "remove"
     /\ last'.res = "ok"
     /\ last'.p = last.p
     => \A v \in Values : insert(SelfNext(last'.p), v).res = "ok"

\* C11: insert on a pool filled to capacity panics and leaves the entries,
\* len and next_id as they were; and after one remove of a present key the
\* next insert succeeds.
C11_Exhaustion == [][C11_Step]_vars

\* C12: insert panics with "`TypePool` is full" exactly when the pool holds
\* usize::MAX entries, in which state no slot id of 0..=usize::MAX is free;
\* in every other state insert succeeds.
C12_Capacity ==
  \A p \in Pools :
    live[p] =>
      \A v \in Values :
        LET self == Self(p)
            r == insert(self, v)
        IN /\ (r.res = "panic_full") <=> (len(self) = USIZE_MAX)
           /\ len(self) = USIZE_MAX => Ids \ DOMAIN self.pool = {}
           /\ len(self) # USIZE_MAX => r.res = "ok"

C13_Step ==
  last'.op = "from_iter" /\ last'.res = "ok" =>
    \A iter \in Iters, a, b \in Addrs :
      FromIter(last'.p, iter, a, b) =>
        LET after == SelfNext(last'.p)
            keys == last'.keys
        IN /\ Len(keys) = Len(iter)
           /\ len(after) = Len(iter)
           /\ \A i \in 1..Len(iter) :
                /\ contains_key(after, keys[i])
                /\ index(after, keys[i]).res = "ok"
                /\ index(after, keys[i]).out = iter[i]

\* C13: from_iter(values) returns a pool and as many keys as there are
\* values, in their order; the pool's len is that number, and for every
\* position i the pool contains keys[i] and pool[keys[i]] is values[i].
C13_FromIter == [][C13_Step]_vars

\* C14: a slot id that a remove has vacated and that is still free is
\* returned by one of the next usize::MAX + 1 inserts that succeed,
\* whatever removes of other keys come between: at most usize::MAX inserts
\* return another id first.
C14_Reuse ==
  vacated # NoVacated =>
    /\ vacated.key.id \notin DOMAIN pool[vacated.p]
    /\ vacated.passed <= USIZE_MAX

\* usize::MAX inserts in a row have passed a vacated slot id by, the last
\* of them wrapping the hint round to it.
C14_Witness ==
  /\ last.op = "insert"
  /\ last.res = "ok"
  /\ vacated.p = last.p
  /\ vacated.passed = USIZE_MAX
  /\ next_id[last.p] = vacated.key.id

C15_Step ==
  last'.op = "get_set" /\ last'.res = "ok" =>
    \A ks \in KeySeqs :
      GetSet(last'.p, ks) =>
        /\ Len(last'.refs) = Len(ks)
        /\ \A i \in 1..Len(ks) :
             /\ last'.refs[i] = ks[i].id
             /\ pool[last'.p][last'.refs[i]] = index(Self(last'.p), ks[i]).out

\* C15: the i-th reference get_set returns refers to the value of the i-th
\* key in the iteration order of the key set.
C15_OutputOrder == [][C15_Step]_vars

\* get_set has returned references to two different values for a key set
\* that iterates against the order of the slot ids.
C15_Witness ==
  /\ last.op = "get_set"
  /\ last.res = "ok"
  /\ Len(last.refs) = 2
  /\ last.refs[1] > last.refs[2]
  /\ pool[last.p][last.refs[1]] # pool[last.p][last.refs[2]]

\* How far id i lies ahead of n in the cyclic order n, n+1, ..., usize::MAX,
\* 0, ..., n-1.
Ahead(n, i) == (i + USIZE_MAX + 1 - n) % (USIZE_MAX + 1)

C16_Step ==
  last'.op = "insert" /\ last'.res = "ok" =>
    LET p == last'.p
        f == last'.keys[1].id
    IN /\ f \notin DOMAIN pool[p]
       /\ \A j \in Ids :
            Ahead(next_id[p], j) < Ahead(next_id[p], f) => j \in DOMAIN pool[p]
       /\ DOMAIN pool'[p] = DOMAIN pool[p] \cup {f}
       /\ \A v \in Values : Insert(p, v) => pool'[p][f] = v

\* C16: an insert that succeeds stores the value at the first slot id
\* absent from storage in the cyclic order next_id, next_id+1, ...,
\* usize::MAX, 0, ..., next_id-1, and the key it returns carries that id.
C16_AllocationOrder == [][C16_Step]_vars

\* An insert has scanned past an occupied slot id to find a free one.
C16_Witness ==
  /\ last.op = "insert"
  /\ last.res = "ok"
  /\ LET r == run[last.p]
         n == Len(r)
     IN /\ n >= 2
        /\ r[n] = last.keys[1].id
        /\ Ahead(r[n - 1], r[n]) > 1

C17_Step ==
  last'.op = "insert" =>
    LET p == last'.p
    IN /\ last'.res = "ok" =>
            next_id'[p] = (last'.keys[1].id + 1) % (2^W)
       /\ /\ len(Self(p)) # USIZE_MAX
          /\ USIZE_MAX \notin DOMAIN pool[p]
          /\ \A j \in Ids :
               Ahead(next_id[p], j) < Ahead(next_id[p], USIZE_MAX) =>
                 j \in DOMAIN pool[p]
          => /\ last'.res = "ok"
             /\ last'.keys[1].id = USIZE_MAX
             /\ next_id'[p] = 0
             /\ \A v \in Values :
                  Insert(p, v) => pool'[p] = MapInsert(pool[p], USIZE_MAX, v)

\* C17: after an insert that allocated slot id f, next_id is (f + 1) modulo
\* 2^w; when f is usize::MAX the insert completes, the value is stored at
\* usize::MAX and next_id becomes 0.
C17_HintWrap == [][C17_Step]_vars

C18_Step ==
  last'.op = "index_mut" =>
    \A k \in Presentable, x \in Values :
      IndexMut(last'.p, k, x) /\ contains_key(Self(last'.p), k) =>
        LET before == Self(last'.p)
            after == SelfNext(last'.p)
        IN /\ last'.res = "ok"
           /\ index(after, k).res = "ok"
           /\ index(after, k).out = x
           /\ DOMAIN after.pool = DOMAIN before.pool
           /\ \A i \in DOMAIN before.pool \ {k.id} :
                after.pool[i] = before.pool[i]
           /\ len(after) = len(before)
           /\ after.next_id = before.next_id
           /\ remove(after, k).res = "ok"
           /\ remove(after, k).out = x

\* C18: for a key k the pool contains, pool[k] = x makes the next read of
\* pool[k] return x and leaves every other slot's value, the slot ids
\* present, len and next_id as they were; a remove(k) that follows
\* returns x.
C18_WriteFrame == [][C18_Step]_vars

\* An indexed write has changed one value of a pool that holds another
\* value beside it.
C18_Witness ==
  /\ last.op = "index_mut"
  /\ last.res = "ok"
  /\ \E i \in DOMAIN pool[last.p] :
       /\ i # last.refs[1]
       /\ pool[last.p][i] # pool[last.p][last.refs[1]]

\* C19: for every set of keys, keys stamped by other pools and keys that
\* share a slot id under different identities included, get_set either
\* panics or returns references into pairwise distinct slots.
C19_NoAliasing ==
  \A p \in Pools :
    live[p] =>
      \A ks \in AllKeySeqs :
        LET r == get_set(Self(p), ks)
        IN \/ IsPanic(r.res)
           \/ /\ r.res = "ok"
              /\ \A i, j \in 1..Len(r.refs) : i # j => r.refs[i] # r.refs[j]

\* get_set has panicked on a set of two keys with one slot id, the first of
\* them a key the pool contains.
C19_Witness ==
  /\ last.op = "get_set"
  /\ last.res = "panic_not_owned"
  /\ \E ks \in KeySeqs :
       /\ Len(ks) = 2
       /\ ks[1].id = ks[2].id
       /\ contains_key(Self(last.p), ks[1])
       /\ get_set(Self(last.p), ks).res = last.res

\* While no insert has allocated the slot id of a removed key, the pool
\* does not contain the key.
C20_Stale ==
  vacated # NoVacated => ~contains_key(Self(vacated.p), vacated.key)

\* The insert that allocates the slot id of a removed key returns that key
\* again, and the old key reads the new value.
C20_Revived ==
  /\ last'.op = "insert"
  /\ last'.res = "ok"
  /\ last'.p = vacated.p
  /\ last'.keys[1].id = vacated.key.id
  => LET p == last'.p
         k == vacated.key
     IN /\ PoolKey_eq(last'.keys[1], k)
        /\ contains_key(SelfNext(p), k)
        /\ \A v \in Values :
             Insert(p, v) =>
               /\ index(SelfNext(p), k).res = "ok"
               /\ index(SelfNext(p), k).out = v

\* C20: after remove(k), contains_key(k) stays false through every
\* sequence of operations in which no insert allocates k's slot id; once
\* an insert allocates that slot id, the new key equals k, k satisfies
\* contains_key again and pool[k] is the newly inserted value.
C20_StaleKeyLifecycle == []C20_Stale /\ [][C20_Revived]_vars

====
